---- MODULE Spec2Model ----
(***************************************************************************)
(* Quote pricing and finalization engine of the quotation dashboard API:   *)
(* the markup rule resolver and price calculator (services/quoting.py),    *)
(* the quote number generator (services/quote_numbers.py) and the quote    *)
(* finalizer (services/quotes_finalize.py) running as concurrent requests  *)
(* against the customer_quotes table (schemas/models.py and its migration).*)
(*                                                                         *)
(* Conventions.                                                            *)
(*   Optional values (Python None):  <<>> is None, <<v>> is the value v.   *)
(*   Decimals: [c |-> coefficient, e |-> fractional digits], the value     *)
(*     c / 10^e, as decimal.Decimal keeps them (Decimal("35.0") is         *)
(*     [c |-> 350, e |-> 1]).  All modelled values stay far below the      *)
(*     context precision of 28 digits, so arithmetic is exact until        *)
(*     quantize rounds.                                                    *)
(*   Quote numbers: [ym |-> month, sfx |-> characters after the last "-"], *)
(*     the string "QUOTE-" + YYYYMM + "-" + sfx, sfx a sequence of         *)
(*     characters; the characters 0..9 are the digits, Letter is a         *)
(*     character that is none.                                             *)
(***************************************************************************)
EXTENDS Integers, Sequences, FiniteSets, TLC

\* ------------------------------------------------------------------ bounds
\* Number of concurrent request workers.
NumProcs == 2
\* Total number of finalize requests the concurrent workers serve.
MaxCalls == 3
\* Number of finalize requests the single worker serves.
MaxSeqCalls == 1
\* Number of calendar months the clock runs through.
MaxMonth == 2

Procs == 1..NumProcs
Months == 1..MaxMonth

\* -------------------------------------------------------------- optionals
None == <<>>
Some(v) == <<v>>
IsNone(o) == o = <<>>
Val(o) == o[1]

\* ---------------------------------------------------------------- decimals
Dec(c, e) == [c |-> c, e |-> e]

RECURSIVE Pow10(_)
Pow10(n) == IF n = 0 THEN 1 ELSE 10 * Pow10(n - 1)

Max2(a, b) == IF a >= b THEN a ELSE b

\* Division of N by D > 0 rounded to the nearest integer, ties to the even
\* neighbour: decimal's ROUND_HALF_EVEN, the rounding of the default context,
\* which quantize() uses when no rounding argument is given.
RoundHalfEven(N, D) ==
    LET q == N \div D
        r == N % D
    IN  IF 2 * r > D \/ (2 * r = D /\ q % 2 = 1) THEN q + 1 ELSE q

\* Ties away from zero towards +infinity for N >= 0: ROUND_HALF_UP.
RoundHalfUp(N, D) ==
    LET q == N \div D
        r == N % D
    IN  IF 2 * r >= D THEN q + 1 ELSE q

\* The rounding quantize applies.
QuantizeRounding(N, D) == RoundHalfEven(N, D)

\* DEC2 = Decimal("0.01"): quantize(DEC2) keeps two fractional digits.
DEC2 == 2

\* d.quantize(DEC2): the value of d rounded to exactly DEC2 fractional digits.
Quantize2(d) ==
    IF d.e <= DEC2
    THEN Dec(d.c * Pow10(DEC2 - d.e), DEC2)
    ELSE Dec(QuantizeRounding(d.c, Pow10(d.e - DEC2)), DEC2)

\* DivQuantize2 cutting the digits after the second instead of rounding.
DivTruncate2(a, n) == Dec(a.c \div n, DEC2)

\* (a / Decimal(n)).quantize(DEC2) for a at DEC2 fractional digits and n > 0.
DivQuantize2(a, n) == Dec(QuantizeRounding(a.c, n), DEC2)

DecMul(a, b) == Dec(a.c * b.c, a.e + b.e)

DecAdd(a, b) ==
    LET e == Max2(a.e, b.e)
    IN  Dec(a.c * Pow10(e - a.e) + b.c * Pow10(e - b.e), e)

\* a / Decimal("100"): exact, two more fractional digits.
DecDiv100(a) == Dec(a.c, a.e + 2)

\* Decimal(int)
DecInt(n) == Dec(n, 0)

\* Equality of values (Decimal.__eq__ compares values, not exponents).
DecEq(a, b) ==
    LET e == Max2(a.e, b.e)
    IN  a.c * Pow10(e - a.e) = b.c * Pow10(e - b.e)

\* bool(Decimal): zero is falsy.
DecTruthy(a) == a.c # 0

\* str(Decimal): the text "<coefficient with the point e digits from the
\* right>", rendered here as the pair <<coefficient, fractional digits>>;
\* Decimal(str) reads it back.  Both keep every digit, trailing zeros too.
DecStr(d) == <<d.c, d.e>>
DecParse(s) == Dec(s[1], s[2])

\* ---------------------------------------------------- services/quoting.py
\* The stand-in find_markup_percent_from_rules uses for "no upper limit".
NoUpperLimit == 1000000000

\* dict.get(key, default)
Get(d, key, default) == IF key \in DOMAIN d THEN d[key] ELSE default

Zero == Dec(0, 0)

\* max_q or 10**9: None and 0 are both falsy.
MaxOrDefault(max_q) ==
    IF IsNone(max_q) \/ Val(max_q) = 0 THEN NoUpperLimit ELSE Val(max_q)

\* min_q <= qty <= (max_q or 10**9)
BandMatches(band, qty) ==
    LET min_q == Get(band, "min_qty", 0)
        max_q == Get(band, "max_qty", Some(NoUpperLimit))
    IN  min_q <= qty /\ qty <= MaxOrDefault(max_q)

\* The for loop over the bands from index i on: the first match returns.
RECURSIVE ScanBands(_, _, _)
ScanBands(bands, i, qty) ==
    IF i > Len(bands) THEN Zero
    ELSE IF BandMatches(bands[i], qty)
         THEN DecParse(Get(bands[i], "markup_percent", DecStr(Zero)))
         ELSE ScanBands(bands, i + 1, qty)

find_markup_percent_from_rules(rules, category, qty) ==
    IF category \notin DOMAIN rules THEN Zero
    ELSE LET service == rules[category]
         IN  IF DOMAIN service = {} THEN Zero
             ELSE ScanBands(Get(service, "bands", <<>>), 1, qty)

\* total = base_cost * (1 + markup_pct/100), quantized to cents.
compute_customer_price(base_cost, markup_pct) ==
    Quantize2(DecMul(base_cost, DecAdd(DecInt(1), DecDiv100(markup_pct))))

\* ----------------------------------------------- services/quote_numbers.py
Digit == 0..9
\* A character int() does not read (a letter), sorting after the digits.
Letter == 10

QuoteNumber(ym, sfx) == [ym |-> ym, sfx |-> sfx]

\* The decimal digits of n >= 0, most significant first.
RECURSIVE Digits(_)
Digits(n) == IF n < 10 THEN <<n>> ELSE Append(Digits(n \div 10), n % 10)

RECURSIVE Zeros(_)
Zeros(k) == IF k <= 0 THEN <<>> ELSE <<0>> \o Zeros(k - 1)

\* The minimum field width of the format spec "04d".
PadWidth == 4

\* f"{n:04d}": zero-padded to at least PadWidth characters, never cut.
Format04d(n) == Zeros(PadWidth - Len(Digits(n))) \o Digits(n)

\* int(s) succeeds on a non-empty string of digits.
IsIntText(s) == Len(s) > 0 /\ \A i \in 1..Len(s) : s[i] \in Digit

RECURSIVE IntOf(_)
IntOf(s) == IF Len(s) = 0 THEN 0
            ELSE 10 * IntOf(SubSeq(s, 1, Len(s) - 1)) + s[Len(s)]

\* ParseSuffix reading the digits it finds and skipping the rest.
ParseSuffixLenient(sfx) ==
    LET isDigit(ch) == ch \in Digit
    IN  IntOf(SelectSeq(sfx, isDigit))

\* try: n = int(last.split("-")[-1])  except Exception: n = 0
ParseSuffix(sfx) == IF IsIntText(sfx) THEN IntOf(sfx) ELSE 0

\* String order, character by character; a proper prefix sorts first.
RECURSIVE StrLess(_, _)
StrLess(a, b) ==
    IF Len(b) = 0 THEN FALSE
    ELSE IF Len(a) = 0 THEN TRUE
    ELSE IF a[1] # b[1] THEN a[1] < b[1]
    ELSE StrLess(Tail(a), Tail(b))

\* SELECT max(quote_number) ... WHERE quote_number LIKE prefix || '%'
\* over the suffixes stored under the prefix: None when there is none.
MaxLike(sfxs) ==
    IF sfxs = {} THEN None
    ELSE Some(CHOOSE m \in sfxs : \A x \in sfxs : x = m \/ StrLess(x, m))

\* The number after `last` (the optional stored maximum of the month).
NumberAfter(ym, last) ==
    LET n == IF IsNone(last) THEN 0 ELSE ParseSuffix(Val(last))
    IN  QuoteNumber(ym, Format04d(n + 1))

\* next_quote_number without the LIKE filter: the maximum over every month.
next_quote_number_unfiltered(rows, now) ==
    NumberAfter(now, MaxLike({rows[i].quote_number.sfx : i \in 1..Len(rows)}))

\* next_quote_number(db, model_cls=CustomerQuote) run in month `now` against
\* the committed rows `rows` (a sequence of CustomerQuote rows).
next_quote_number(rows, now) ==
    LET sfxs == {rows[i].quote_number.sfx :
                    i \in {j \in 1..Len(rows) : rows[j].quote_number.ym = now}}
    IN  NumberAfter(now, MaxLike(sfxs))

\* --------------------------------------------- services/quotes_finalize.py
\* Rows of markup_schemas: [id, is_active, rules].

\* The active schema row with the lowest id, None when no row is active.
get_active_markup_schema(schemas) ==
    LET act == {s \in schemas : s.is_active}
    IN  IF act = {} THEN None
        ELSE Some(CHOOSE s \in act : \A t \in act : s.id <= t.id)

\* row.id if row else None
get_active_schema_id(schemas) ==
    LET row == get_active_markup_schema(schemas)
    IN  IF IsNone(row) THEN None ELSE Some(Val(row).id)

\* determine_markup_pct reading the active schema with the highest id.
determine_markup_pct_latest(schemas, category, qty) ==
    LET act == {s \in schemas : s.is_active}
    IN  IF act = {} THEN Zero
        ELSE find_markup_percent_from_rules(
                (CHOOSE s \in act : \A t \in act : s.id >= t.id).rules, category, qty)

\* determine_markup_pct: always the active schema's rules.
determine_markup_pct(schemas, category, qty) ==
    LET schema == get_active_markup_schema(schemas)
    IN  IF IsNone(schema) \/ DOMAIN Val(schema).rules = {} THEN Zero
        ELSE find_markup_percent_from_rules(Val(schema).rules, category, qty)

\* s += Decimal(str(li.unit_cost)) * Decimal(int(li.qty)), item by item.
RECURSIVE SumItems(_, _)
SumItems(items, i) ==
    IF i > Len(items) THEN Zero
    ELSE DecAdd(DecMul(DecParse(DecStr(items[i].unit_cost)), DecInt(items[i].qty)),
                SumItems(items, i + 1))

\* _subtotal_from_items rounding every item's amount before it is added.
RECURSIVE SumRoundedItems(_, _)
SumRoundedItems(items, i) ==
    IF i > Len(items) THEN Dec(0, DEC2)
    ELSE DecAdd(Quantize2(DecMul(items[i].unit_cost, DecInt(items[i].qty))),
                SumRoundedItems(items, i + 1))

subtotal_from_items_rounded_each(items) == SumRoundedItems(items, 1)

subtotal_from_items(items) == Quantize2(SumItems(items, 1))

\* sum(int(li.qty) for li in payload.line_items)
RECURSIVE SumQty(_, _)
SumQty(items, i) ==
    IF i > Len(items) THEN 0 ELSE items[i].qty + SumQty(items, i + 1)

\* `x or y` on an optional int: None and 0 are falsy.
IntTruthy(o) == ~IsNone(o) /\ Val(o) # 0

\* `payload.line_items`: None and the empty list are falsy.
HasItems(payload) ==
    ~IsNone(payload.line_items) /\ Len(Val(payload.line_items)) > 0

\* payload.category or "im": None and "" are falsy.
CategoryOrDefault(payload) ==
    IF IsNone(payload.category) \/ Val(payload.category) = ""
    THEN "im" ELSE Val(payload.category)

\* computed_qty or payload.qty or 1
QtyOrDefault(payload, computed_qty) ==
    IF computed_qty # 0 THEN computed_qty
    ELSE IF IntTruthy(payload.qty) THEN Val(payload.qty) ELSE 1

resolve_markup_pct(schemas, payload, computed_qty) ==
    IF ~IsNone(payload.markup_override_pct)
    THEN DecParse(DecStr(Val(payload.markup_override_pct)))
    ELSE determine_markup_pct(schemas, CategoryOrDefault(payload),
                              QtyOrDefault(payload, computed_qty))

\* schema_id = payload.markup_schema_id or _get_active_schema_id(db)
ResolveSchemaId(schemas, payload) ==
    IF IntTruthy(payload.markup_schema_id) THEN payload.markup_schema_id
    ELSE get_active_schema_id(schemas)

\* li.model_dump(mode="json"): the Decimal becomes its string.
DumpItem(li) ==
    [description |-> li.description, qty |-> li.qty,
     unit_cost |-> DecStr(li.unit_cost)]

DumpItems(items) == [i \in 1..Len(items) |-> DumpItem(items[i])]

\* Step 2 of finalize_quote, itemized mode.
ItemsMode(payload) ==
    LET items == Val(payload.line_items)
    IN  [subtotal |-> subtotal_from_items(items),
         computed_qty |-> SumQty(items, 1),
         line_items_json |-> [mode |-> "items", items |-> DumpItems(items)]]

\* Step 2 of finalize_quote, simple mode (base_cost and qty are present).
SimpleMode(payload) ==
    LET subtotal == Quantize2(DecParse(DecStr(Val(payload.base_cost))))
        computed_qty == Val(payload.qty)
        per_unit == DivQuantize2(subtotal, computed_qty)
    IN  [subtotal |-> subtotal,
         computed_qty |-> computed_qty,
         line_items_json |->
            [mode |-> "simple",
             items |-> <<[description |-> <<"Base cost",
                                            IF IsNone(payload.category)
                                               \/ Val(payload.category) = ""
                                            THEN "n/a" ELSE Val(payload.category)>>,
                          qty |-> computed_qty,
                          unit_cost |-> DecStr(per_unit)]>>]]

\* Decimal(str(payload.fees or 0)).quantize(DEC2), likewise for tax.
Extra(d) == Quantize2(IF DecTruthy(d) THEN DecParse(DecStr(d)) ELSE DecInt(0))

\* GrandTotal with the tax left out.
GrandTotalNoTax(before_extras, fees, tax) ==
    Quantize2(DecAdd(before_extras, fees))

\* (before_extras + fees + tax).quantize(DEC2)
GrandTotal(before_extras, fees, tax) ==
    Quantize2(DecAdd(DecAdd(before_extras, fees), tax))

\* The ValueError finalize_quote raises before it touches customer_quotes,
\* "" when it raises none.
FinalizeError(schemas, payload) ==
    IF ~IntTruthy(ResolveSchemaId(schemas, payload)) THEN "NoActiveSchema"
    ELSE IF ~HasItems(payload) /\ (IsNone(payload.base_cost) \/ IsNone(payload.qty))
         THEN "MissingCostInput"
         ELSE ""

\* Steps 1 to 4 of finalize_quote for a payload that raises no ValueError:
\* the locals it holds when it asks for the quote number.
FinalizeCalc(schemas, payload) ==
    LET m == IF HasItems(payload) THEN ItemsMode(payload) ELSE SimpleMode(payload)
        markup_pct == resolve_markup_pct(schemas, payload, m.computed_qty)
        before_extras == compute_customer_price(m.subtotal, markup_pct)
        fees == Extra(payload.fees)
        tax == Extra(payload.tax)
    IN  [schema_id |-> Val(ResolveSchemaId(schemas, payload)),
         subtotal |-> m.subtotal,
         computed_qty |-> m.computed_qty,
         line_items_json |-> m.line_items_json,
         markup_pct |-> markup_pct,
         before_extras |-> before_extras,
         fees |-> fees,
         tax |-> tax,
         grand_total |-> GrandTotal(before_extras, fees, tax)]

\* payload.model_dump(mode="json"): Decimals become strings.
DumpOpt(o) == IF IsNone(o) THEN None ELSE Some(DecStr(Val(o)))

DumpPayload(payload) ==
    [payload EXCEPT !.base_cost = DumpOpt(payload.base_cost),
                    !.markup_override_pct = DumpOpt(payload.markup_override_pct),
                    !.fees = DecStr(payload.fees),
                    !.tax = DecStr(payload.tax),
                    !.line_items = IF IsNone(payload.line_items) THEN None
                                   ELSE Some(DumpItems(Val(payload.line_items)))]

\* Snapshot recording the total before fees and tax.
SnapshotBeforeExtras(payload, calc, qn) ==
    [input |-> DumpPayload(payload),
     calc |-> [computed_qty |-> calc.computed_qty,
               markup_pct |-> DecStr(calc.markup_pct),
               subtotal |-> DecStr(calc.subtotal),
               before_extras |-> DecStr(calc.before_extras),
               fees |-> DecStr(calc.fees),
               tax |-> DecStr(calc.tax),
               total |-> DecStr(calc.before_extras)],
     quote_number |-> qn]

\* Step 5: the snapshot dict.
Snapshot(payload, calc, qn) ==
    [input |-> DumpPayload(payload),
     calc |-> [computed_qty |-> calc.computed_qty,
               markup_pct |-> DecStr(calc.markup_pct),
               subtotal |-> DecStr(calc.subtotal),
               before_extras |-> DecStr(calc.before_extras),
               fees |-> DecStr(calc.fees),
               tax |-> DecStr(calc.tax),
               total |-> DecStr(calc.grand_total)],
     quote_number |-> qn]

\* Step 6: the CustomerQuote(...) object handed to db.add; the id is the
\* table's to give.
BuildRow(payload, calc, qn) ==
    [quote_number |-> qn,
     project_id |-> payload.project_id,
     selected_supplier_quote_id |-> payload.selected_supplier_quote_id,
     markup_schema_id |-> calc.schema_id,
     line_items |-> calc.line_items_json,
     subtotal |-> calc.subtotal,
     fees |-> calc.fees,
     tax |-> calc.tax,
     total |-> calc.grand_total,
     valid_until |-> payload.valid_until,
     status |-> payload.status,
     snapshot |-> Snapshot(payload, calc, qn)]

\* ------------------------------------------------------------ the database
\* projects.id values present (customer_quotes.project_id refers to them).
ProjectIds == {1}

\* The seeded "im" bands (seed.py).
SeedRules ==
    [im |-> [bands |-> <<
        [min_qty |-> 1,    max_qty |-> Some(49),  markup_percent |-> DecStr(Dec(350, 1))],
        [min_qty |-> 50,   max_qty |-> Some(199), markup_percent |-> DecStr(Dec(280, 1))],
        [min_qty |-> 200,  max_qty |-> Some(999), markup_percent |-> DecStr(Dec(220, 1))],
        [min_qty |-> 1000, max_qty |-> None,      markup_percent |-> DecStr(Dec(180, 1))]>>]]

\* A second schema with a single flat band.
FlatRules ==
    [im |-> [bands |-> <<
        [min_qty |-> 1, max_qty |-> None, markup_percent |-> DecStr(Dec(120, 1))]>>]]

SchemaRow(id, active, rules) == [id |-> id, is_active |-> active, rules |-> rules]

\* The contents of markup_schemas the requests may find: the table is
\* written by administrators only, never by the finalizer.
SchemaTables ==
    { {SchemaRow(1, TRUE, SeedRules),  SchemaRow(2, TRUE, FlatRules)},
      {SchemaRow(1, FALSE, SeedRules), SchemaRow(2, TRUE, FlatRules)},
      {SchemaRow(1, FALSE, SeedRules), SchemaRow(2, FALSE, FlatRules)} }

\* The columns of customer_quotes a stored row carries.
Columns ==
    {"id", "quote_number", "project_id", "selected_supplier_quote_id",
     "markup_schema_id", "line_items", "subtotal", "fees", "tax", "total",
     "valid_until", "status", "snapshot"}

\* chk_quote_number_format: ^QUOTE-[0-9]{6}-[0-9]{4}$ (the month part is
\* six digits by construction).
FormatOk(qn) ==
    Len(qn.sfx) = PadWidth /\ \A i \in 1..Len(qn.sfx) : qn.sfx[i] \in Digit

StoredNumbers(rows) == {rows[i].quote_number : i \in 1..Len(rows)}

\* InsertViolation without the unique index on quote_number.
InsertViolationNoUnique(rows, schemas, row) ==
    IF ~(Len(row.quote_number.sfx) = PadWidth
         /\ \A i \in 1..Len(row.quote_number.sfx) : row.quote_number.sfx[i] \in Digit)
    THEN "check"
    ELSE IF row.markup_schema_id \notin {s.id : s \in schemas}
            \/ row.project_id \notin ProjectIds THEN "foreign_key"
    ELSE ""

\* The constraint an INSERT of `row` violates against the committed rows,
\* "" when it violates none: the format check, the unique index on
\* quote_number, the foreign keys.
InsertViolation(rows, schemas, row) ==
    IF ~FormatOk(row.quote_number) THEN "check"
    ELSE IF row.quote_number \in StoredNumbers(rows) THEN "unique"
    ELSE IF row.markup_schema_id \notin {s.id : s \in schemas}
            \/ row.project_id \notin ProjectIds THEN "foreign_key"
    ELSE ""

\* ------------------------------------------------------------ the requests
Item(description, qty, unit_cost) ==
    [description |-> description, qty |-> qty, unit_cost |-> unit_cost]

Request(line_items, base_cost, qty, category, schema_id, override, fees, tax) ==
    [project_id |-> 1, selected_supplier_quote_id |-> None,
     line_items |-> line_items, base_cost |-> base_cost, qty |-> qty,
     category |-> category, markup_schema_id |-> schema_id,
     markup_override_pct |-> override, fees |-> fees, tax |-> tax,
     valid_until |-> None, status |-> "draft"]

\* Simple mode, nothing optional given: 1234.56 for 250 "im" parts.
ReqSimple ==
    Request(None, Some(Dec(123456, 2)), Some(250), Some("im"), None, None,
            Dec(2500, 2), Dec(0, 2))
\* Itemized mode under schema 2, fees and tax with a third decimal.
ReqItems ==
    Request(Some(<<Item("a", 2, Dec(1000, 2)), Item("b", 3, Dec(500, 2))>>),
            None, None, None, Some(2), None, Dec(25005, 3), Dec(125, 3))
\* A schema id no row has, an empty item list, an unknown category.
ReqBadSchema ==
    Request(Some(<<>>), Some(Dec(1000, 2)), Some(3), Some("zz"), Some(7), None,
            Dec(0, 0), Dec(0, 0))

\* Neither items nor a base cost.
ReqNoCost ==
    Request(None, None, Some(3), Some("im"), Some(2), None, Dec(0, 0), Dec(0, 0))

\* The requests the concurrent workers receive.
Payloads == {ReqSimple, ReqItems, ReqBadSchema, ReqNoCost}

\* Two items whose costs carry a third decimal: 10.004 and 5.004.
MilliItems == <<Item("c", 1, Dec(10004, 3)), Item("d", 1, Dec(5004, 3))>>

\* The requests the single worker receives: every combination of the four
\* shapes of line_items, base_cost and qty present or absent, four schema
\* ids (none, 0, an existing one, a missing one) and two overrides; the
\* category and the extras go with the shape of line_items.
SeqItemLists ==
    {None, Some(<<>>),
     Some(<<Item("a", 2, Dec(1000, 2)), Item("b", 3, Dec(500, 2))>>),
     Some(MilliItems)}
SeqCosts == {None, Some(Dec(123456, 2))}
SeqQtys == {None, Some(250)}
SeqSchemaIds == {None, Some(0), Some(2), Some(7)}
SeqOverrides == {None, Some(Dec(0, 0))}
SeqCategory(items) ==
    IF IsNone(items) THEN Some("im")
    ELSE IF Val(items) = <<>> THEN Some("zz")
    ELSE IF Val(items) = MilliItems THEN Some("")
    ELSE None
SeqFees(items) == IF IsNone(items) THEN Dec(2500, 2) ELSE Dec(25005, 3)
SeqTax(items) == IF IsNone(items) THEN Dec(0, 2) ELSE Dec(125, 3)

SeqPayloads ==
    {Request(li, bc, q, SeqCategory(li), sid, ov, SeqFees(li), SeqTax(li)) :
        li \in SeqItemLists, bc \in SeqCosts, q \in SeqQtys,
        sid \in SeqSchemaIds, ov \in SeqOverrides}

\* ---------------------------------------------------------------- state
VARIABLES
    now,       \* the current UTC month (datetime.utcnow(), as YYYYMM)
    schemas,   \* the rows of markup_schemas
    quotes,    \* the committed rows of customer_quotes, in insertion order
    calls,     \* finalize requests received so far
    pc,        \* per worker: "idle", "numbered", "done", "failed"
    payload,   \* per worker: the request being served
    row,       \* per worker: the CustomerQuote added to the session
    attempts,  \* per worker: INSERTs this request has issued
    exc,       \* per worker: the exception the request ended with, "" if none
    resp,      \* per worker: the HTTP status answered, 0 while running
    arg,       \* the arguments of a function called on its own, None if none
    res        \* what that call returned, None before it returns

vars == <<now, schemas, quotes, calls, pc, payload, row, attempts, exc, resp,
          arg, res>>

\* The variables of a function called on its own.
fnvars == <<arg, res>>
\* The variables of the request workers and the database.
sysvars == <<now, schemas, quotes, calls, pc, payload, row, attempts, exc, resp>>

NoRow == None

\* Workers idle, customer_quotes empty, the schema table `tbl`.
Idle(tbl) ==
    /\ now = 1
    /\ schemas = tbl
    /\ quotes = <<>>
    /\ calls = 0
    /\ pc = [p \in Procs |-> "idle"]
    /\ payload = [p \in Procs |-> ReqSimple]
    /\ row = [p \in Procs |-> NoRow]
    /\ attempts = [p \in Procs |-> 0]
    /\ exc = [p \in Procs |-> ""]
    /\ resp = [p \in Procs |-> 0]

Init ==
    /\ \E tbl \in SchemaTables : Idle(tbl)
    /\ arg = None
    /\ res = None

\* Start with a generator that reserves the number it returns by storing a
\* row of that number at once.
StartReserving(p, pl) ==
    /\ pc[p] \in {"idle", "done", "failed"}
    /\ calls' = calls + 1
    /\ payload' = [payload EXCEPT ![p] = pl]
    /\ attempts' = [attempts EXCEPT ![p] = 0]
    /\ LET err == FinalizeError(schemas, pl)
       IN  IF err # ""
           THEN /\ pc' = [pc EXCEPT ![p] = "failed"]
                /\ exc' = [exc EXCEPT ![p] = err]
                /\ resp' = [resp EXCEPT ![p] = 400]
                /\ row' = [row EXCEPT ![p] = NoRow]
                /\ quotes' = quotes
           ELSE /\ pc' = [pc EXCEPT ![p] = "numbered"]
                /\ exc' = [exc EXCEPT ![p] = ""]
                /\ resp' = [resp EXCEPT ![p] = 0]
                /\ row' = [row EXCEPT ![p] =
                             Some(BuildRow(pl, FinalizeCalc(schemas, pl),
                                           next_quote_number(quotes, now)))]
                /\ quotes' = Append(quotes,
                        [id |-> Len(quotes) + 1] @@
                        BuildRow(pl, FinalizeCalc(schemas, pl),
                                 next_quote_number(quotes, now)))
    /\ UNCHANGED <<now, schemas, arg, res>>

\* POST /quotes/finalize arrives at a free worker and finalize_quote runs up
\* to db.add(row): steps 1 to 4 (a ValueError is answered 400 by the router),
\* then the number is read from the committed rows and the snapshot and the
\* row are built; the row waits in the session.  Steps 1 to 4 read only
\* markup_schemas, which nothing here writes, so the one read that other
\* requests can affect is the generator's.
Start(p, pl) ==
    /\ pc[p] \in {"idle", "done", "failed"}
    /\ calls' = calls + 1
    /\ payload' = [payload EXCEPT ![p] = pl]
    /\ attempts' = [attempts EXCEPT ![p] = 0]
    /\ LET err == FinalizeError(schemas, pl)
       IN  IF err # ""
           THEN /\ pc' = [pc EXCEPT ![p] = "failed"]
                /\ exc' = [exc EXCEPT ![p] = err]
                /\ resp' = [resp EXCEPT ![p] = 400]
                /\ row' = [row EXCEPT ![p] = NoRow]
           ELSE /\ pc' = [pc EXCEPT ![p] = "numbered"]
                /\ exc' = [exc EXCEPT ![p] = ""]
                /\ resp' = [resp EXCEPT ![p] = 0]
                /\ row' = [row EXCEPT ![p] =
                             Some(BuildRow(pl, FinalizeCalc(schemas, pl),
                                           next_quote_number(quotes, now)))]
    /\ UNCHANGED <<now, schemas, quotes, arg, res>>

\* A value as a Numeric(12, 2) column keeps it: at two fractional digits,
\* further digits rounded to the nearest, a half away from zero (the values
\* here are not negative).
Numeric2(d) ==
    IF d.e <= 2 THEN Dec(d.c * Pow10(2 - d.e), 2)
    ELSE Dec((2 * d.c + Pow10(d.e - 2)) \div (2 * Pow10(d.e - 2)), 2)

\* The row as the table keeps it under the id it is given.
Stored(id, r) ==
    [id |-> id] @@ [r EXCEPT !.subtotal = Numeric2(r.subtotal),
                             !.fees = Numeric2(r.fees),
                             !.tax = Numeric2(r.tax),
                             !.total = Numeric2(r.total)]

\* Committed with the number written on its own before the rest of the row:
\* a rejected row leaves its number behind.
CommittedPartial(rows, tbl, r) ==
    IF InsertViolation(rows, tbl, r) = ""
    THEN Append(rows, Stored(Len(rows) + 1, r))
    ELSE IF InsertViolation(rows, tbl, r) = "foreign_key"
         THEN Append(rows, [id |-> Len(rows) + 1, quote_number |-> r.quote_number])
         ELSE rows

\* Committed as an upsert on quote_number: a row whose number is taken
\* replaces the stored row of that number.
CommittedReplacing(rows, tbl, r) ==
    IF InsertViolation(rows, tbl, r) = ""
    THEN Append(rows, Stored(Len(rows) + 1, r))
    ELSE IF InsertViolation(rows, tbl, r) = "unique"
         THEN [i \in 1..Len(rows) |->
                 IF rows[i].quote_number = r.quote_number
                 THEN Stored(rows[i].id, r) ELSE rows[i]]
         ELSE rows

\* What db.commit() leaves in customer_quotes: the rows plus the new one
\* under the next id when no constraint is violated, the rows as they were
\* when one is (the transaction is rolled back).
Committed(rows, tbl, r) ==
    IF InsertViolation(rows, tbl, r) = ""
    THEN Append(rows, Stored(Len(rows) + 1, r))
    ELSE rows

\* db.commit(): the INSERT and the commit.  A violated constraint raises
\* IntegrityError, which finalize_quote and the router let through: the
\* application's exception handler answers 500.  Either way the request
\* ends and get_db closes its session.
Commit(p) ==
    /\ pc[p] = "numbered"
    /\ attempts' = [attempts EXCEPT ![p] = @ + 1]
    /\ quotes' = Committed(quotes, schemas, Val(row[p]))
    /\ LET v == InsertViolation(quotes, schemas, Val(row[p]))
       IN  IF v = ""
           THEN /\ pc' = [pc EXCEPT ![p] = "done"]
                /\ exc' = exc
                /\ resp' = [resp EXCEPT ![p] = 201]
           ELSE /\ pc' = [pc EXCEPT ![p] = "failed"]
                /\ exc' = [exc EXCEPT ![p] = v]
                /\ resp' = [resp EXCEPT ![p] = 500]
    /\ row' = [row EXCEPT ![p] = NoRow]
    /\ UNCHANGED <<now, schemas, calls, payload, arg, res>>

\* The calendar month changes.
Tick ==
    /\ now < MaxMonth
    /\ now' = now + 1
    /\ UNCHANGED <<schemas, quotes, calls, pc, payload, row, attempts, exc, resp,
                   arg, res>>

\* Concurrent workers.
Next ==
    \/ \E p \in Procs, pl \in Payloads : calls < MaxCalls /\ Start(p, pl)
    \/ \E p \in Procs : Commit(p)
    \/ Tick

Spec == Init /\ [][Next]_vars

\* One worker, requests of every shape.
NextFinalize ==
    \/ \E pl \in SeqPayloads : calls < MaxSeqCalls /\ Start(1, pl)
    \/ Commit(1)

SpecFinalize == Init /\ [][NextFinalize]_vars

\* ------------------------------------------- the functions on their own
\* Rows a table holds in such a call, at most.
MaxRows == 2

\* Suffixes in the stored format, and two a table without the format check
\* may hold (the CustomerQuote class declares the unique index only): one
\* with a letter, and the empty one.
SampleSuffixes ==
    {Format04d(n) : n \in {1, 2, 9, 10, 99, 100, 999, 9998, 9999}}
        \cup {<<0, 0, Letter, 1>>, <<>>}

SampleNumbers == {QuoteNumber(m, x) : m \in Months, x \in SampleSuffixes}

\* Tables of up to MaxRows rows with distinct stored numbers (the generator
\* reads no other column).
RECURSIVE TablesOfLen(_)
TablesOfLen(n) ==
    IF n = 0 THEN {<<>>}
    ELSE {Append(t, [quote_number |-> q]) :
            <<t, q>> \in {x \in TablesOfLen(n - 1) \X SampleNumbers :
                            x[2] \notin StoredNumbers(x[1])}}

SampleTables == UNION {TablesOfLen(n) : n \in 0..MaxRows}

InitNumber ==
    /\ \E tbl \in {CHOOSE t \in SchemaTables : TRUE} : Idle(tbl)
    /\ arg \in {Some([rows |-> t, now |-> m]) : t \in SampleTables, m \in Months}
    /\ res = None

\* next_quote_number is called on the table.
GenerateNumber ==
    /\ ~IsNone(arg) /\ IsNone(res)
    /\ res' = Some(next_quote_number(Val(arg).rows, Val(arg).now))
    /\ UNCHANGED <<arg, sysvars>>

NextNumber == GenerateNumber

SpecNumber == InitNumber /\ [][NextNumber]_vars

\* Base costs and markup percentages the calculator is called with.
SampleCosts ==
    {Dec(0, 2), Dec(10, 2), Dec(50, 2), Dec(150, 2), Dec(250, 2), Dec(10000, 2),
     Dec(123456, 2), Dec(25, 1), Dec(7, 0), Dec(5, 3), Dec(1005, 3)}

SamplePercents ==
    {Dec(0, 0), Dec(1, 0), Dec(35, 0), Dec(350, 1), Dec(220, 1), Dec(5, 1),
     Dec(125, 1), Dec(100, 0), Dec(3, 0), Dec(10, 0)}

InitPrice ==
    /\ \E tbl \in {CHOOSE t \in SchemaTables : TRUE} : Idle(tbl)
    /\ arg \in {Some([base_cost |-> b, markup_pct |-> m]) :
                    b \in SampleCosts, m \in SamplePercents}
    /\ res = None

\* compute_customer_price is called.
ComputePrice ==
    /\ ~IsNone(arg) /\ IsNone(res)
    /\ res' = Some(compute_customer_price(Val(arg).base_cost, Val(arg).markup_pct))
    /\ UNCHANGED <<arg, sysvars>>

NextPrice == ComputePrice

SpecPrice == InitPrice /\ [][NextPrice]_vars

Band(min_qty, max_qty, pct) ==
    [min_qty |-> min_qty, max_qty |-> max_qty, markup_percent |-> DecStr(pct)]

\* Two bands that overlap on 50..100.
OverlapRules ==
    [im |-> [bands |-> <<Band(1, Some(100), Dec(100, 1)),
                         Band(50, None, Dec(200, 1))>>]]
\* One band, quantities below 10 and above 20 uncovered; a second category.
GapRules ==
    [im   |-> [bands |-> <<Band(10, Some(20), Dec(5, 0))>>],
     pcba |-> [bands |-> <<Band(1, Some(49), Dec(250, 1)),
                           Band(50, None, Dec(150, 1))>>]]
\* No category at all.
EmptyRules == [c \in {} |-> <<>>]
\* A category without bands, and one whose band has no max_qty key.
SparseRules ==
    [im   |-> [bands |-> <<>>],
     pcba |-> [bands |-> <<[min_qty |-> 5, markup_percent |-> DecStr(Dec(8, 0))]>>]]

SampleRules == {SeedRules, FlatRules, OverlapRules, GapRules, EmptyRules, SparseRules}

SampleCategories == {"im", "pcba", "zz"}

SampleQtys == {1, 5, 10, 20, 49, 50, 100, 250, 1000, NoUpperLimit, NoUpperLimit + 1}

InitResolver ==
    /\ \E tbl \in {CHOOSE t \in SchemaTables : TRUE} : Idle(tbl)
    /\ arg \in {Some([rules |-> r, category |-> c, qty |-> q]) :
                    r \in SampleRules, c \in SampleCategories, q \in SampleQtys}
    /\ res = None

\* find_markup_percent_from_rules is called.
Resolve ==
    /\ ~IsNone(arg) /\ IsNone(res)
    /\ res' = Some(find_markup_percent_from_rules(Val(arg).rules, Val(arg).category,
                                                  Val(arg).qty))
    /\ UNCHANGED <<arg, sysvars>>

NextResolver == Resolve

SpecResolver == InitResolver /\ [][NextResolver]_vars

\* ================================================================= claims

SuffixesOf(m) ==
    LET inMonth(r) == r.quote_number.ym = m
        rs == SelectSeq(quotes, inMonth)
    IN  [i \in 1..Len(rs) |-> rs[i].quote_number.sfx]

\* C1: in every reachable state, whatever the interleaving of concurrent
\* finalize calls, no two committed customer quotes carry the same
\* quote_number.
C1_UniqueQuoteNumbers ==
    \A i, j \in 1..Len(quotes) :
        i # j => quotes[i].quote_number # quotes[j].quote_number

\* Two calls raced for one number: one of them was refused by the unique
\* index while two quotes are stored.
C1_Witness ==
    /\ Len(quotes) >= 2
    /\ \E p \in Procs : pc[p] = "failed" /\ exc[p] = "unique"

\* C2: a finalize call whose insert hits the uniqueness violation on
\* quote_number recomputes the number and retries; the violation surfaces
\* as a server-side failure only after retries, never on the first conflict.
C2_NoFailureOnFirstConflict ==
    \A p \in Procs :
        (pc[p] = "failed" /\ exc[p] = "unique" /\ resp[p] = 500) => attempts[p] > 1

\* A stored row with every column set, its number in the stored format and
\* in its snapshot, a non-empty item list and its totals in the snapshot.
RowComplete(r) ==
    /\ DOMAIN r = Columns
    /\ FormatOk(r.quote_number)
    /\ r.snapshot.quote_number = r.quote_number
    /\ Len(r.line_items.items) > 0
    /\ DecParse(r.snapshot.calc.total) = r.total

\* C3: finalize persistence is all-or-nothing.  Every step either leaves
\* customer_quotes as it was or is the successful commit of one call, which
\* appends exactly one complete row; and a call that fails at its commit
\* leaves the table, and with it the number the generator hands out next,
\* unchanged.
C3_Step ==
    /\ \/ quotes' = quotes
       \/ \E p \in Procs :
            /\ pc[p] = "numbered" /\ pc'[p] = "done"
            /\ Len(quotes') = Len(quotes) + 1
            /\ SubSeq(quotes', 1, Len(quotes)) = quotes
            /\ RowComplete(quotes'[Len(quotes')])
            /\ quotes'[Len(quotes')].quote_number = Val(row[p]).quote_number
    /\ \A p \in Procs :
            (pc[p] = "numbered" /\ pc'[p] = "failed") =>
                /\ quotes' = quotes
                /\ next_quote_number(quotes', now') = next_quote_number(quotes, now)

C3_AllOrNothing == [][C3_Step]_vars

\* A commit was refused (a conflict or a missing schema row) while other
\* quotes are stored.
C3_Witness ==
    /\ Len(quotes) >= 1
    /\ \E p \in Procs : pc[p] = "failed" /\ resp[p] = 500 /\ exc[p] = "foreign_key"

\* C4: among the committed quotes of one month, in order of persistence,
\* the suffixes are strictly increasing and the first is 0001, whatever is
\* stored for earlier months.
C4_MonthlySequence ==
    \A m \in Months :
        LET s == SuffixesOf(m)
        IN  /\ Len(s) > 0 => s[1] = <<0, 0, 0, 1>>
            /\ \A i \in 1..(Len(s) - 1) : IntOf(s[i]) < IntOf(s[i + 1])

\* Two quotes of the first month are stored and a quote of the second month
\* after them.
C4_Witness ==
    /\ Len(SuffixesOf(1)) >= 2
    /\ Len(SuffixesOf(2)) >= 1
    /\ quotes[Len(quotes)].quote_number.ym = 2

\* C6: for every committed quote, the total equals before_extras + fees +
\* tax, each of the three at two decimals: re-adding the values the
\* snapshot records reproduces the stored total exactly.
C6_TotalFromSnapshot ==
    \A i \in 1..Len(quotes) :
        LET c == quotes[i].snapshot.calc
            b == DecParse(c.before_extras)
            f == DecParse(c.fees)
            t == DecParse(c.tax)
        IN  /\ b.e = 2 /\ f.e = 2 /\ t.e = 2
            /\ quotes[i].total.e = 2
            /\ quotes[i].total.c = b.c + f.c + t.c
            /\ DecParse(c.total) = quotes[i].total

\* A quote whose request gave fees and tax with a third decimal is stored.
C6_Witness ==
    \E i \in 1..Len(quotes) :
        /\ quotes[i].snapshot.input.fees = DecStr(Dec(25005, 3))
        /\ quotes[i].tax.c # 0

\* The lowest id among the active schemas, None when none is active.
LowestActiveId ==
    LET act == {s.id : s \in {t \in schemas : t.is_active}}
    IN  IF act = {} THEN None ELSE Some(CHOOSE a \in act : \A b \in act : a <= b)

\* C10: finalize records the request's markup_schema_id when one is
\* provided, otherwise the lowest id among the active schemas; when none is
\* provided and no schema is active it fails with NoActiveSchema, answered
\* 400, and persists no quote.
C10_SchemaResolution ==
    /\ \A i \in 1..Len(quotes) :
          LET given == quotes[i].snapshot.input.markup_schema_id
          IN  IF ~IsNone(given)
              THEN quotes[i].markup_schema_id = Val(given)
              ELSE Some(quotes[i].markup_schema_id) = LowestActiveId
    /\ \A p \in Procs :
          (pc[p] # "idle" /\ IsNone(payload[p].markup_schema_id) /\ IsNone(LowestActiveId))
              => (pc[p] = "failed" /\ exc[p] = "NoActiveSchema" /\ resp[p] = 400)

\* C5: every quote number the generator returns, whatever is stored for the
\* month, has a suffix of exactly 4 digits: it passes the storage format
\* check ^QUOTE-[0-9]{6}-[0-9]{4}$.
C5_GeneratedFormat ==
    (~IsNone(arg) /\ ~IsNone(res)) =>
        (FormatOk(Val(res)) /\ Val(res).ym = Val(arg).now)

\* 100-fold of the exact price base_cost * (1 + markup_pct/100) as the
\* fraction PriceNum / PriceDen.
PriceNum(b, m) == b.c * (Pow10(m.e + 2) + m.c)
PriceDen(b, m) == Pow10(b.e + m.e)

\* C7 as stated: the price is the exact product rounded to 2 digits, an
\* exact half-cent rounding up.
C7_PriceHalfUp ==
    (~IsNone(arg) /\ ~IsNone(res)) =>
        LET N == PriceNum(Val(arg).base_cost, Val(arg).markup_pct)
            D == PriceDen(Val(arg).base_cost, Val(arg).markup_pct)
            r == Val(res)
        IN  /\ r.e = 2
            /\ 2 * (r.c * D - N) <= D
            /\ 2 * (r.c * D - N) > -D

\* C7 amended: the price is the exact product rounded to 2 digits, to the
\* nearest cent and, on an exact half-cent, to the even cent;
\* price(100.00, 0) = 100.00 and price(1234.56, 35) = 1666.66.
C7_PriceHalfEven ==
    (~IsNone(arg) /\ ~IsNone(res)) =>
        LET b == Val(arg).base_cost
            m == Val(arg).markup_pct
            N == PriceNum(b, m)
            D == PriceDen(b, m)
            r == Val(res)
        IN  /\ r.e = 2
            /\ 2 * (r.c * D - N) <= D
            /\ 2 * (r.c * D - N) >= -D
            /\ (2 * (r.c * D - N) = D \/ 2 * (r.c * D - N) = -D) => r.c % 2 = 0
            /\ (b = Dec(10000, 2) /\ m = Dec(0, 0)) => r = Dec(10000, 2)
            /\ (b = Dec(123456, 2) /\ m = Dec(35, 0)) => r = Dec(166666, 2)

\* 0.50 at 1% is 0.505, an exact half-cent, and was priced 0.50.
C7_Witness ==
    /\ arg = Some([base_cost |-> Dec(50, 2), markup_pct |-> Dec(1, 0)])
    /\ res = Some(Dec(50, 2))

\* The range of a band as the rules mean it: min_qty <= qty, and
\* qty <= max_qty unless max_qty is absent or null.
InRange(band, qty) ==
    /\ Get(band, "min_qty", 0) <= qty
    /\ \/ "max_qty" \notin DOMAIN band
       \/ IsNone(band.max_qty)
       \/ qty <= Val(band.max_qty)

BandsOf(rules, category) ==
    IF category \in DOMAIN rules THEN rules[category].bands ELSE <<>>

\* C8: the resolver returns 0 when the category is absent from the rules,
\* otherwise the markup_percent of the first band in list order whose range
\* contains qty, and 0 when no band contains it.
C8_FirstBandInOrder ==
    (~IsNone(arg) /\ ~IsNone(res)) =>
        LET bands == BandsOf(Val(arg).rules, Val(arg).category)
            hits == {i \in 1..Len(bands) : InRange(bands[i], Val(arg).qty)}
        IN  IF hits = {}
            THEN DecEq(Val(res), Zero)
            ELSE LET first == CHOOSE i \in hits : \A j \in hits : i <= j
                 IN  Val(res) = DecParse(bands[first].markup_percent)

\* C9: a band whose max_qty is absent or null matches every qty >= min_qty,
\* however large; a band with an integer max_qty matches exactly the
\* quantities min_qty <= qty <= max_qty.
C9_BandRange ==
    (~IsNone(arg) /\ ~IsNone(res)) =>
        LET bands == BandsOf(Val(arg).rules, Val(arg).category)
        IN  \A i \in 1..Len(bands) :
                BandMatches(bands[i], Val(arg).qty) <=> InRange(bands[i], Val(arg).qty)

\* A schema id is resolvable for the request: it names one, or a schema is
\* active.
SchemaResolvable(pl) == ~IsNone(pl.markup_schema_id) \/ ~IsNone(LowestActiveId)

\* The request carries a non-empty item list.
ItemsGiven(pl) == ~IsNone(pl.line_items) /\ Val(pl.line_items) # <<>>

\* C11: with a resolvable schema, a finalize call fails with
\* MissingCostInput, answered 400, exactly when line_items is empty or
\* absent and base_cost or qty is absent; with a non-empty line_items it
\* never fails with MissingCostInput.
C11_MissingCostInput ==
    \A p \in Procs :
        (pc[p] # "idle" /\ SchemaResolvable(payload[p])) =>
            ((pc[p] = "failed" /\ exc[p] = "MissingCostInput" /\ resp[p] = 400)
                <=> (/\ ~ItemsGiven(payload[p])
                     /\ IsNone(payload[p].base_cost) \/ IsNone(payload[p].qty)))

\* The quantity of a stored request: the sum of the item quantities when it
\* carries items, its qty otherwise.
RequestQty(inp) ==
    IF ItemsGiven(inp) THEN SumQty(Val(inp.line_items), 1) ELSE Val(inp.qty)

\* The category of a stored request, "im" when it names none.
RequestCategory(inp) == IF IsNone(inp.category) THEN "im" ELSE Val(inp.category)

\* C12: for every stored quote, the markup finalize used is the request's
\* markup_override_pct when one is supplied (0 included), whatever the
\* rules say; otherwise it is the resolver's result on the active schema's
\* rules for the request's category ("im" when unset) and computed_qty (the
\* sum of the item quantities in itemized mode, qty in simple mode).
C12_MarkupUsed ==
    \A i \in 1..Len(quotes) :
        LET inp == quotes[i].snapshot.input
            used == DecParse(quotes[i].snapshot.calc.markup_pct)
            active == get_active_markup_schema(schemas)
        IN  /\ quotes[i].snapshot.calc.computed_qty = RequestQty(inp)
            /\ IF ~IsNone(inp.markup_override_pct)
               THEN used = DecParse(Val(inp.markup_override_pct))
               ELSE ~IsNone(active) =>
                        used = find_markup_percent_from_rules(
                                   Val(active).rules, RequestCategory(inp),
                                   RequestQty(inp))

\* The items of a stored request, as it recorded them.
RequestItems(inp) == Val(inp.line_items)

\* 1000-fold of the exact sum of unit_cost * qty over the recorded items,
\* for unit costs of at most three decimals.
RECURSIVE MilliSum(_, _)
MilliSum(items, i) ==
    IF i > Len(items) THEN 0
    ELSE DecParse(items[i].unit_cost).c * Pow10(3 - DecParse(items[i].unit_cost).e)
            * items[i].qty
         + MilliSum(items, i + 1)

\* C13: for every stored quote whose request carries a non-empty item
\* list, the subtotal is the sum over the items of unit_cost * qty, rounded
\* to 2 decimals once, after the summation, and computed_qty is the sum of
\* the item quantities, whatever base_cost and qty the request also
\* carries; items (2 at 10.00) and (3 at 5.00) give 35.00 and 5.
C13_ItemizedSubtotal ==
    \A i \in 1..Len(quotes) :
        LET inp == quotes[i].snapshot.input
            sub == quotes[i].subtotal
            exact == MilliSum(RequestItems(inp), 1)
        IN  ItemsGiven(inp) =>
                /\ sub.e = 2
                /\ 2 * (10 * sub.c - exact) <= 10
                /\ 2 * (10 * sub.c - exact) >= -10
                /\ DecParse(quotes[i].snapshot.calc.subtotal) = sub
                /\ quotes[i].snapshot.calc.computed_qty = SumQty(RequestItems(inp), 1)
                /\ (RequestItems(inp) =
                        DumpItems(<<Item("a", 2, Dec(1000, 2)), Item("b", 3, Dec(500, 2))>>))
                     => (sub = Dec(3500, 2) /\ quotes[i].snapshot.calc.computed_qty = 5)

\* A quote is stored whose items, 10.004 and 5.004, add up to 15.008: the
\* subtotal is 15.01, where the rounded items would add up to 15.00; its
\* request also carried a base cost and a qty.
C13_Witness ==
    \E i \in 1..Len(quotes) :
        /\ quotes[i].snapshot.input.line_items = Some(DumpItems(MilliItems))
        /\ quotes[i].subtotal = Dec(1501, 2)
        /\ ~IsNone(quotes[i].snapshot.input.base_cost)
        /\ ~IsNone(quotes[i].snapshot.input.qty)

\* The stored maximum the generator reads for the month of its call: the
\* greatest suffix, as strings, among the month's stored numbers.
LastOfMonth ==
    MaxLike({Val(arg).rows[i].quote_number.sfx :
                i \in {j \in 1..Len(Val(arg).rows) :
                          Val(arg).rows[j].quote_number.ym = Val(arg).now}})

\* C14: when the suffix of the month's last stored quote number does not
\* read as an integer, the generator takes it as 0 and returns the month's
\* number with suffix 0001; it returns a number on every table, it never
\* raises.
C14_UnparsableSuffix ==
    (~IsNone(arg) /\ ~IsNone(res)) =>
        ((~IsNone(LastOfMonth) /\ ~IsIntText(Val(LastOfMonth)))
            => Val(res) = QuoteNumber(Val(arg).now, <<0, 0, 0, 1>>))

\* The generator returned on a table whose last number of the month ends in
\* a suffix with a letter, stored next to a well-formed number.
C14_Witness ==
    /\ ~IsNone(arg) /\ ~IsNone(res)
    /\ LastOfMonth = Some(<<0, 0, Letter, 1>>)
    /\ \E i \in 1..Len(Val(arg).rows) :
          /\ Val(arg).rows[i].quote_number.ym = Val(arg).now
          /\ IsIntText(Val(arg).rows[i].quote_number.sfx)

\* C15: for every stored quote, the snapshot records the assigned quote
\* number and the computed subtotal, fees, tax and total, and they equal the
\* row's own quote_number, subtotal, fees, tax and total columns.
C15_SnapshotMatchesColumns ==
    \A i \in 1..Len(quotes) :
        LET q == quotes[i]
            c == q.snapshot.calc
        IN  /\ q.snapshot.quote_number = q.quote_number
            /\ DecParse(c.subtotal) = q.subtotal
            /\ DecParse(c.fees) = q.fees
            /\ DecParse(c.tax) = q.tax
            /\ DecParse(c.total) = q.total

\* A quote is stored whose total differs from its subtotal by a markup, a
\* fee and a tax, none of them zero.
C15_Witness ==
    \E i \in 1..Len(quotes) :
        /\ quotes[i].fees.c # 0
        /\ quotes[i].tax.c # 0
        /\ DecParse(quotes[i].snapshot.calc.before_extras).c # quotes[i].subtotal.c
        /\ quotes[i].total.c # quotes[i].subtotal.c

\* The request of the example as a stored quote records it: simple mode,
\* base_cost 1234.56, qty 250, category "im", fees 25.00, tax 0.00, no schema
\* id and no override.
ExampleInput == DumpPayload(ReqSimple)

\* The active schema's "im" band 200..999 is at 22%.
ExampleSchemaActive ==
    /\ ~IsNone(get_active_markup_schema(schemas))
    /\ \E k \in 1..Len(Val(get_active_markup_schema(schemas)).rules.im.bands) :
          Val(get_active_markup_schema(schemas)).rules.im.bands[k]
              = Band(200, Some(999), Dec(220, 1))

RecordedRules(q) ==
    (CHOOSE s \in schemas : s.id = q.markup_schema_id).rules

\* C17: for every stored quote made without a markup_override_pct, the
\* markup applied is the resolver's result on the rules of the schema the
\* quote records as markup_schema_id, also when the request names a schema
\* other than the active one and when no schema is active.
C17_MarkupFromRecordedSchema ==
    \A i \in 1..Len(quotes) :
        LET q == quotes[i]
            inp == q.snapshot.input
        IN  IsNone(inp.markup_override_pct) =>
                DecParse(q.snapshot.calc.markup_pct)
                    = find_markup_percent_from_rules(
                          RecordedRules(q), CategoryOrDefault(inp),
                          q.snapshot.calc.computed_qty)

\* The errors finalize raises for a request it cannot price.
DomainErrors == {"NoActiveSchema", "MissingCostInput"}

\* C18: every step of a finalize call either leaves the stored quotes as
\* they are or appends exactly one row after them: no stored quote is
\* modified or removed; the successful end of a call appends exactly one; a
\* call that fails with NoActiveSchema or MissingCostInput has issued no
\* insert, stores nothing and leaves the number the next call is assigned
\* as it was.
C18_Step ==
    /\ Len(quotes') >= Len(quotes)
    /\ Len(quotes') <= Len(quotes) + 1
    /\ SubSeq(quotes', 1, Len(quotes)) = quotes
    /\ \A p \in Procs :
          (pc[p] = "numbered" /\ pc'[p] = "done") => Len(quotes') = Len(quotes) + 1
    /\ \A p \in Procs :
          (/\ calls' = calls + 1
           /\ pc[p] # "numbered"
           /\ pc'[p] = "failed" /\ exc'[p] \in DomainErrors /\ resp'[p] = 400)
              => /\ attempts'[p] = 0
                 /\ quotes' = quotes
                 /\ next_quote_number(quotes', now') = next_quote_number(quotes, now)

C18_AddsAtMostOne == [][C18_Step]_vars

\* With a quote stored, one call has ended with MissingCostInput and another
\* with a refused duplicate number.
C18_Witness ==
    /\ Len(quotes) >= 1
    /\ \E p, q \in Procs :
          /\ pc[p] = "failed" /\ exc[p] = "MissingCostInput" /\ resp[p] = 400
          /\ pc[q] = "failed" /\ exc[q] = "unique"

\* The number worker p holds between the generator's return and its commit.
HeldNumber(p) == Val(row[p]).quote_number

\* A worker that holds a number of the current month which no stored quote
\* carries yet holds the very number the generator returns now.
C19_Unclaimed ==
    \A p \in Procs :
        (/\ pc[p] = "numbered"
         /\ HeldNumber(p).ym = now
         /\ HeldNumber(p) \notin StoredNumbers(quotes))
            => next_quote_number(quotes, now) = HeldNumber(p)

\* The step in which a call is given its number stores nothing, and the
\* generator called again right after returns that number again.
C19_Step ==
    \A p \in Procs :
        (pc[p] # "numbered" /\ pc'[p] = "numbered") =>
            /\ quotes' = quotes
            /\ next_quote_number(quotes', now') = Val(row'[p]).quote_number
            /\ next_quote_number(quotes', now') = next_quote_number(quotes, now)

\* C19: the quote number generator only reads storage and reserves nothing:
\* calling it stores nothing, two calls in the same month with no quote
\* inserted between them return the same number, and the number a finalize
\* call holds stays unclaimed, the generator still returning it, until an
\* insert of that number commits.
C19_GeneratorReadOnly == [](C19_Unclaimed) /\ [][C19_Step]_vars

\* Two calls hold the same number at once, after a first quote was stored,
\* and no stored quote carries it.
C19_Witness ==
    /\ Len(quotes) >= 1
    /\ \A p \in Procs : pc[p] = "numbered"
    /\ \E p, q \in Procs :
          /\ p # q
          /\ HeldNumber(p) = HeldNumber(q)
          /\ HeldNumber(p) \notin StoredNumbers(quotes)

\* C20: every stored quote has a non-empty stored item list.  A request
\* with items stores exactly its items under mode "items"; a request
\* without stores, under mode "simple", one synthetic item whose qty is the
\* request's qty and whose unit_cost is subtotal / qty rounded to 2
\* decimals.
C20_LineItemsNeverEmpty ==
    \A i \in 1..Len(quotes) :
        LET inp == quotes[i].snapshot.input
            li == quotes[i].line_items
        IN  /\ Len(li.items) > 0
            /\ IF ItemsGiven(inp)
               THEN li.mode = "items" /\ li.items = RequestItems(inp)
               ELSE /\ li.mode = "simple"
                    /\ Len(li.items) = 1
                    /\ li.items[1].qty = Val(inp.qty)
                    /\ LET u == DecParse(li.items[1].unit_cost)
                           n == Val(inp.qty)
                       IN  /\ u.e = 2
                           /\ 2 * (u.c * n - quotes[i].subtotal.c) <= n
                           /\ 2 * (u.c * n - quotes[i].subtotal.c) >= -n

\* A simple-mode quote is stored whose request carried an empty item list:
\* 1234.56 for 250 parts, 4.94 a part (4.93824 rounded up).
C20_Witness ==
    \E i \in 1..Len(quotes) :
        /\ quotes[i].snapshot.input.line_items = Some(<<>>)
        /\ quotes[i].line_items.mode = "simple"
        /\ quotes[i].line_items.items[1].unit_cost = DecStr(Dec(494, 2))

====
